---- MODULE Spec2Model ----
(***************************************************************************)
(* Model of minecraft-tui (src/src/main.rs): the terminal session driven   *)
(* by main, the instance repository (load_instances) and the view-state    *)
(* machine of App driven by run_app.                                       *)
(*                                                                         *)
(* Strings are sequences of one-character strings.  Option<u64> and        *)
(* Option<usize> are a natural number or None (-1, outside both types).    *)
(* Vec indices are 0-based as in the source; Get converts.                 *)
(***************************************************************************)
EXTENDS Integers, Sequences, FiniteSets, TLC

VARIABLES
    pc,                 \* position of main
    term,               \* the terminal: [raw, alt]
    restoreCalled,      \* restore_terminal has been entered
    instances,          \* App.instances
    filtered_instances, \* App.filtered_instances
    selected,           \* App.list_state.selected()
    should_quit,        \* App.should_quit
    should_launch,      \* App.should_launch
    sort_mode,          \* App.sort_mode
    search_mode,        \* App.search_mode
    search_query,       \* App.search_query
    details_mode,       \* App.details_mode
    res,                \* result of run_app held by main
    launched,           \* instance handed to launch_instance, or NoInstance
    opened,             \* xdg-open has been spawned for a selected instance
    enterHighlighted,   \* instance highlighted when Enter was pressed
    enterSearchEmpty,   \* Enter was pressed in Search state on an empty subset
    call,               \* a function of the program called on its own: [fn, arg]
    ret                 \* what that call returned

appVars == <<instances, filtered_instances, selected, should_quit,
             should_launch, sort_mode, search_mode, search_query,
             details_mode>>

vars == <<pc, term, restoreCalled, instances, filtered_instances,
          selected, should_quit, should_launch, sort_mode, search_mode,
          search_query, details_mode, res, launched, opened,
          enterHighlighted, enterSearchEmpty, call, ret>>

fnVars == <<call, ret>>

mainVars == <<pc, term, restoreCalled, instances, filtered_instances,
              selected, should_quit, should_launch, sort_mode, search_mode,
              search_query, details_mode, res, launched, opened,
              enterHighlighted, enterSearchEmpty>>

----------------------------------------------------------------------------
(* Bounds *)

MaxInstances == 3    \* directory entries at startup
MaxSeconds == 7300   \* largest duration handed to format_duration
MaxUnits == 25       \* multiples of a minute, an hour, a day taken as elapsed times
MaxQueryLen == 2     \* characters typed into the search query

----------------------------------------------------------------------------
(* Values *)

None == -1

NowMs == 500000000

Str_Alpha == <<"A", "l", "p", "h", "a">>
Str_Beta == <<"B", "e", "t", "a">>
Str_Gamma == <<"G", "a", "m", "m", "a">>
Str_alga == <<"a", "l", "g", "a">>

Str_1_20 == <<"1", ".", "2", "0">>
Str_abc == <<"a", "b", "c">>

\* An Option<String> is <<>> (None) or <<s>> (Some(s)).  The display
\* strings last_played and time_played are functions of the two numbers
\* and are not stored.
Instance(n, p, lp, tp, v) ==
    [name |-> n, path |-> p, last_played_ts |-> lp, time_played_secs |-> tp,
     mc_version |-> v]

NoInstance == Instance(<<>>, 0, None, None, <<>>)

\* No function is called on its own.
NoCall == [fn |-> "none"]

\* Directories that can be present under the instances root.  Two of them
\* carry the same name and statistics, one has statistics that are present
\* and 0, one has none.
Pool ==
    { Instance(Str_Alpha, 1, None, None, <<>>),
      Instance(Str_Beta, 2, NowMs - 172800000, 3661, <<Str_1_20>>),
      Instance(Str_Gamma, 3, NowMs - 1800000, 30, <<>>),
      Instance(Str_alga, 4, 0, 0, <<>>),
      Instance(Str_Beta, 5, NowMs - 172800000, 3661, <<>>) }

\* Characters the keyboard can deliver as KeyCode::Char: letters that occur
\* in instance names and three of the keys bound to commands in Normal
\* state (sort, details, quit).
Chars == {"a", "g", "G", "s", "i", "q"}

SortModes == {"Name", "LastPlayed", "Playtime"}

----------------------------------------------------------------------------
(* Strings *)

Code(c) ==
    CASE c = "/" -> 47
      [] c = "A" -> 65
      [] c = "B" -> 66
      [] c = "G" -> 71
      [] c = "a" -> 97
      [] c = "b" -> 98
      [] c = "e" -> 101
      [] c = "g" -> 103
      [] c = "h" -> 104
      [] c = "i" -> 105
      [] c = "j" -> 106
      [] c = "k" -> 107
      [] c = "l" -> 108
      [] c = "m" -> 109
      [] c = "o" -> 111
      [] c = "p" -> 112
      [] c = "q" -> 113
      [] c = "s" -> 115
      [] c = "t" -> 116

LowerChar(c) ==
    CASE c = "A" -> "a"
      [] c = "B" -> "b"
      [] c = "G" -> "g"
      [] OTHER -> c

\* Variant: the case of the text is left as it is.
to_lowercase_Identity(s) == s

to_lowercase(s) == [i \in 1..Len(s) |-> LowerChar(s[i])]

\* str::contains: needle occurs in hay as a contiguous run.
contains(hay, needle) ==
    \E off \in 0..(Len(hay) - Len(needle)) :
        \A k \in 1..Len(needle) : hay[off + k] = needle[k]

\* Ordering::Less / Equal / Greater as -1 / 0 / 1.
CmpInt(x, y) == IF x < y THEN -1 ELSE IF x > y THEN 1 ELSE 0

\* String::cmp: lexicographic on the code units, a proper prefix is smaller.
CmpStr(a, b) ==
    LET n == IF Len(a) < Len(b) THEN Len(a) ELSE Len(b)
        diff == {i \in 1..n : a[i] # b[i]}
    IN  IF diff = {}
        THEN CmpInt(Len(a), Len(b))
        ELSE LET d == CHOOSE i \in diff : \A j \in diff : i <= j
             IN  CmpInt(Code(a[d]), Code(b[d]))

unwrap_or(o, d) == IF o = None THEN d ELSE o

Get(v, i) == IF i >= 0 /\ i < Len(v) THEN v[i + 1] ELSE NoInstance

----------------------------------------------------------------------------
(* Sort Engine *)

\* Variant: the cycle runs the other way round.
SortMode_next_Reversed(m) ==
    CASE m = "Name" -> "Playtime"
      [] m = "Playtime" -> "LastPlayed"
      [] m = "LastPlayed" -> "Name"

SortMode_next(m) ==
    CASE m = "Name" -> "LastPlayed"
      [] m = "LastPlayed" -> "Playtime"
      [] m = "Playtime" -> "Name"

\* Variant: the statistics are compared a to b, giving ascending order.
Compare_Ascending(m, a, b) ==
    CASE m = "Name" -> CmpStr(a.name, b.name)
      [] m = "LastPlayed" ->
            CmpInt(unwrap_or(a.last_played_ts, 0), unwrap_or(b.last_played_ts, 0))
      [] m = "Playtime" ->
            CmpInt(unwrap_or(a.time_played_secs, 0), unwrap_or(b.time_played_secs, 0))

\* The comparator closure handed to sort_by in mode m.
Compare(m, a, b) ==
    CASE m = "Name" -> CmpStr(a.name, b.name)
      [] m = "LastPlayed" ->
            CmpInt(unwrap_or(b.last_played_ts, 0), unwrap_or(a.last_played_ts, 0))
      [] m = "Playtime" ->
            CmpInt(unwrap_or(b.time_played_secs, 0), unwrap_or(a.time_played_secs, 0))

\* Variant: x is placed in front of the elements it compares Equal to.
InsertPos_BeforeTies(m, v, x) ==
    Cardinality({i \in 1..Len(v) : Compare(m, v[i], x) < 0})

\* Position x takes in the ordered vector v: behind every element that does
\* not compare Greater than x.
InsertPos(m, v, x) ==
    Cardinality({i \in 1..Len(v) : Compare(m, v[i], x) <= 0})

\* Variant: x overwrites the element behind position k instead of shifting it.
InsertAt_Overwrite(v, k, x) ==
    SubSeq(v, 1, k) \o <<x>> \o SubSeq(v, k + 2, Len(v))

InsertAt(v, k, x) == SubSeq(v, 1, k) \o <<x>> \o SubSeq(v, k + 1, Len(v))

RECURSIVE sort_by(_, _)
\* slice::sort_by, a stable sort: elements are placed left to right, each
\* behind the elements already placed that are not Greater.
sort_by(m, v) ==
    IF v = <<>>
    THEN <<>>
    ELSE LET front == sort_by(m, SubSeq(v, 1, Len(v) - 1))
             x == v[Len(v)]
         IN  InsertAt(front, InsertPos(m, front, x), x)

\* Variant: the collection is always put in name order.
sort_instances_NameOnly(m, v) == sort_by("Name", v)

sort_instances(m, v) == sort_by(m, v)

----------------------------------------------------------------------------
(* Filter Engine and Selection Cursor *)

Matches(q, inst) == contains(to_lowercase(inst.name), to_lowercase(q))

FilterInstances(v, q) ==
    IF q = <<>>
    THEN v
    ELSE SelectSeq(v, LAMBDA inst : Matches(q, inst))

\* Variant: an index past the end of the new subset is kept.
ResetSelection_KeepsIndex(f, sel) ==
    IF f # <<>> /\ sel = None THEN 0 ELSE sel

\* The selection part of update_filter, given the new visible subset.
ResetSelection(f, sel) ==
    IF f # <<>> /\ sel = None
    THEN 0
    ELSE IF sel # None
         THEN (IF sel >= Len(f) THEN 0 ELSE sel)
         ELSE sel

\* Variant: the wrap test compares with len instead of len - 1.
next_OffByOne(f, sel) ==
    IF f = <<>>
    THEN sel
    ELSE IF sel # None
         THEN (IF sel >= Len(f) THEN 0 ELSE sel + 1)
         ELSE 0

next(f, sel) ==
    IF f = <<>>
    THEN sel
    ELSE IF sel # None
         THEN (IF sel >= Len(f) - 1 THEN 0 ELSE sel + 1)
         ELSE 0

previous(f, sel) ==
    IF f = <<>>
    THEN sel
    ELSE IF sel # None
         THEN (IF sel = 0 THEN Len(f) - 1 ELSE sel - 1)
         ELSE 0

\* The instance launch_selected / open_folder_selected acts on.
SelectedInstance(f, sel) == IF sel # None THEN Get(f, sel) ELSE NoInstance

----------------------------------------------------------------------------
(* Display strings *)

DigitChar(d) ==
    CASE d = 0 -> "0" [] d = 1 -> "1" [] d = 2 -> "2" [] d = 3 -> "3"
      [] d = 4 -> "4" [] d = 5 -> "5" [] d = 6 -> "6" [] d = 7 -> "7"
      [] d = 8 -> "8" [] d = 9 -> "9"

RECURSIVE Decimal(_)
\* Display of an unsigned integer inside format!: decimal, no padding.
Decimal(n) ==
    IF n < 10
    THEN <<DigitChar(n)>>
    ELSE Decimal(n \div 10) \o <<DigitChar(n % 10)>>

\* Variant: the minutes are not reduced modulo the hour.
format_duration_TotalMinutes(seconds) ==
    LET hours == seconds \div 3600
        minutes == seconds \div 60
    IN  IF hours > 0
        THEN Decimal(hours) \o <<"h", " ">> \o Decimal(minutes) \o <<"m">>
        ELSE IF minutes > 0
             THEN Decimal(minutes) \o <<"m">>
             ELSE Decimal(seconds) \o <<"s">>

format_duration(seconds) ==
    LET hours == seconds \div 3600
        minutes == (seconds % 3600) \div 60
    IN  IF hours > 0
        THEN Decimal(hours) \o <<"h", " ">> \o Decimal(minutes) \o <<"m">>
        ELSE IF minutes > 0
             THEN Decimal(minutes) \o <<"m">>
             ELSE Decimal(seconds) \o <<"s">>

Str_DaysAgo == <<" ", "d", "a", "y", "s", " ", "a", "g", "o">>
Str_HoursAgo == <<" ", "h", "o", "u", "r", "s", " ", "a", "g", "o">>
Str_MinutesAgo == <<" ", "m", "i", "n", "u", "t", "e", "s", " ", "a", "g", "o">>
Str_JustNow == <<"J", "u", "s", "t", " ", "n", "o", "w">>
Str_Recently == <<"R", "e", "c", "e", "n", "t", "l", "y">>

\* SystemTime::now().duration_since(UNIX_EPOCH + from_millis(timestamp_ms))
\* as whole seconds (Duration::as_secs), or None when the instant lies
\* after now.
ElapsedSecs(timestamp_ms, now_ms) ==
    IF timestamp_ms > now_ms THEN None ELSE (now_ms - timestamp_ms) \div 1000

\* Variant: a single day is not reported in days.
format_timestamp_DaysOverOne(timestamp_ms, now_ms) ==
    LET secs == ElapsedSecs(timestamp_ms, now_ms)
    IN  IF secs # None
        THEN IF secs \div 86400 > 1
             THEN Decimal(secs \div 86400) \o Str_DaysAgo
             ELSE IF secs \div 3600 > 0
                  THEN Decimal(secs \div 3600) \o Str_HoursAgo
                  ELSE IF secs \div 60 > 0
                       THEN Decimal(secs \div 60) \o Str_MinutesAgo
                       ELSE Str_JustNow
        ELSE Str_Recently

\* format_timestamp with the reading of the clock made a parameter.
format_timestamp(timestamp_ms, now_ms) ==
    LET secs == ElapsedSecs(timestamp_ms, now_ms)
    IN  IF secs # None
        THEN IF secs \div 86400 > 0
             THEN Decimal(secs \div 86400) \o Str_DaysAgo
             ELSE IF secs \div 3600 > 0
                  THEN Decimal(secs \div 3600) \o Str_HoursAgo
                  ELSE IF secs \div 60 > 0
                       THEN Decimal(secs \div 60) \o Str_MinutesAgo
                       ELSE Str_JustNow
        ELSE Str_Recently

----------------------------------------------------------------------------
(* Instance Repository *)

Ok(v) == [ok |-> TRUE, val |-> v]
Err == [ok |-> FALSE, val |-> <<>>]

DigitValue(c) ==
    CASE c = "0" -> 0 [] c = "1" -> 1 [] c = "2" -> 2 [] c = "3" -> 3
      [] c = "4" -> 4 [] c = "5" -> 5 [] c = "6" -> 6 [] c = "7" -> 7
      [] c = "8" -> 8 [] c = "9" -> 9 [] OTHER -> None

\* u64::from_str on the text of an INI value: Ok(number) for a non-empty
\* run of digits, Err otherwise.
RECURSIVE parse_u64(_)
parse_u64(t) ==
    IF t = <<>> THEN Err
    ELSE LET d == DigitValue(t[Len(t)])
         IN  IF d = None THEN Err
             ELSE IF Len(t) = 1 THEN Ok(d)
             ELSE LET r == parse_u64(SubSeq(t, 1, Len(t) - 1))
                  IN  IF r.ok THEN Ok(10 * r.val + d) ELSE Err

\* serde_ini deserialising an Option<u64> field from the value of its key
\* (<<>> when the key is missing): a missing key is None, a present value
\* goes through u64::from_str and its error is the error of the field.
deserialize_option_u64(o) ==
    IF o = <<>> THEN Ok(None) ELSE parse_u64(o[1])

\* serde_ini::from_str::<InstanceConfig> on the text c of instance.cfg,
\* given as whether it is an INI document with a [General] section and the
\* values of the three keys in it.
from_str_InstanceConfig(c) ==
    LET lp == deserialize_option_u64(c.lastLaunchTime)
        tp == deserialize_option_u64(c.totalTimePlayed)
    IN  IF c.well_formed /\ c.name # <<>> /\ lp.ok /\ tp.ok
        THEN Ok([name |-> c.name[1],
                 last_launch_time |-> lp.val,
                 total_time_played |-> tp.val])
        ELSE Err

\* Index of the first component whose uid is "net.minecraft", 0 if none.
FindMinecraft(components) ==
    LET hits == { i \in 1..Len(components) : components[i].uid = "net.minecraft" }
    IN  IF hits = {} THEN 0 ELSE CHOOSE i \in hits : \A j \in hits : i <= j

\* The mc_version expression: mmc-pack.json exists, is read, parses as
\* MMCPack and holds a net.minecraft component with a version.
mc_version(pack) ==
    IF pack.exists /\ pack.readable /\ pack.well_formed
    THEN LET i == FindMinecraft(pack.components)
         IN  IF i = 0 THEN <<>> ELSE pack.components[i].version
    ELSE <<>>

\* Body of the for loop for one directory entry: the instances it pushes.
LoadEntry(e) ==
    IF e.is_dir /\ e.cfg.exists /\ e.cfg.readable
    THEN LET config == from_str_InstanceConfig(e.cfg)
         IN  IF config.ok
             THEN << Instance(config.val.name, e.path,
                              config.val.last_launch_time,
                              config.val.total_time_played,
                              mc_version(e.pack)) >>
             ELSE <<>>
    ELSE <<>>

RECURSIVE LoadEntries(_)
LoadEntries(entries) ==
    IF entries = <<>> THEN <<>>
    ELSE LoadEntries(SubSeq(entries, 1, Len(entries) - 1))
            \o LoadEntry(entries[Len(entries)])

\* Variant: a missing instances root is reported as an error.
load_instances_RootRequired(f) ==
    IF ~f.home_ok THEN Err
    ELSE IF ~f.root_exists THEN Err
    ELSE IF ~f.readable THEN Err
    ELSE Ok(sort_by("Name", LoadEntries(f.entries)))

\* load_instances on the file system f: HOME readable or not, the root
\* present or not, read_dir and its entries succeeding or not, and the
\* entries in the order read_dir yields them.
load_instances(f) ==
    IF ~f.home_ok THEN Err
    ELSE IF ~f.root_exists THEN Ok(<<>>)
    ELSE IF ~f.readable THEN Err
    ELSE Ok(sort_by("Name", LoadEntries(f.entries)))

\* Files of an entry of the instances root.
Cfg(x, r, w, n, lp, tp) ==
    [exists |-> x, readable |-> r, well_formed |-> w, name |-> n,
     lastLaunchTime |-> lp, totalTimePlayed |-> tp]

Pack(x, r, w, c) ==
    [exists |-> x, readable |-> r, well_formed |-> w, components |-> c]

NoPack == Pack(FALSE, FALSE, FALSE, <<>>)

Component(u, v) == [uid |-> u, version |-> v]

DirEntry(p, d, c, k) == [path |-> p, is_dir |-> d, cfg |-> c, pack |-> k]

\* Value of an optional numeric key as written by the launcher.
NumText(n) == IF n = None THEN <<>> ELSE <<Decimal(n)>>

\* The directory of instance i of Pool: a config that parses to it, and a
\* manifest that is missing, has a versioned net.minecraft component, does
\* not parse, cannot be read, or has no versioned net.minecraft component.
EntryOf(i) ==
    DirEntry(i.path, TRUE,
             Cfg(TRUE, TRUE, TRUE, <<i.name>>, NumText(i.last_played_ts),
                 NumText(i.time_played_secs)),
             CASE i.path = 1 -> NoPack
               [] i.path = 2 -> Pack(TRUE, TRUE, TRUE,
                                     << Component("org.lwjgl3", <<Str_abc>>),
                                        Component("net.minecraft", <<Str_1_20>>) >>)
               [] i.path = 3 -> Pack(TRUE, TRUE, FALSE, <<>>)
               [] i.path = 4 -> Pack(TRUE, FALSE, FALSE, <<>>)
               [] OTHER -> Pack(TRUE, TRUE, TRUE,
                                << Component("net.minecraft", <<>>) >>))

\* Entries that yield no instance: a plain file, a directory without
\* instance.cfg, with one that cannot be read, with one that is not INI,
\* with one that lacks the name, and with one whose lastLaunchTime or
\* totalTimePlayed is not a number.
OtherEntries ==
    { DirEntry(6, FALSE, Cfg(FALSE, FALSE, FALSE, <<>>, <<>>, <<>>), NoPack),
      DirEntry(7, TRUE, Cfg(FALSE, FALSE, FALSE, <<>>, <<>>, <<>>), NoPack),
      DirEntry(8, TRUE, Cfg(TRUE, FALSE, FALSE, <<>>, <<>>, <<>>), NoPack),
      DirEntry(9, TRUE, Cfg(TRUE, TRUE, FALSE, <<>>, <<>>, <<>>), NoPack),
      DirEntry(10, TRUE, Cfg(TRUE, TRUE, TRUE, <<>>, <<>>, <<>>), NoPack),
      DirEntry(11, TRUE, Cfg(TRUE, TRUE, TRUE, <<Str_Gamma>>, <<Str_abc>>, <<>>),
               NoPack),
      DirEntry(12, TRUE, Cfg(TRUE, TRUE, TRUE, <<Str_Alpha>>, <<>>, <<Str_abc>>),
               NoPack) }

EntryPool == { EntryOf(i) : i \in Pool } \cup OtherEntries

\* Orders in which read_dir can yield entries of the instances root.
DirListings ==
    UNION { { s \in [1..n -> EntryPool] : \A i, j \in 1..n : s[i] = s[j] => i = j }
            : n \in 0..MaxInstances }

FileSystems ==
    { [home_ok |-> h, root_exists |-> r, readable |-> d, entries |-> e] :
        h \in BOOLEAN, r \in BOOLEAN, d \in BOOLEAN, e \in DirListings }

----------------------------------------------------------------------------
(* main: terminal session and application construction *)

\* The program before main has run a statement.
InitMain ==
    /\ pc = "setup"
    /\ term = [raw |-> FALSE, alt |-> FALSE]
    /\ restoreCalled = FALSE
    /\ instances = <<>>
    /\ filtered_instances = <<>>
    /\ selected = None
    /\ should_quit = FALSE
    /\ should_launch = FALSE
    /\ sort_mode = "Name"
    /\ search_mode = FALSE
    /\ search_query = <<>>
    /\ details_mode = FALSE
    /\ res = "none"
    /\ launched = NoInstance
    /\ opened = FALSE
    /\ enterHighlighted = NoInstance
    /\ enterSearchEmpty = FALSE

Init ==
    /\ InitMain
    /\ call = NoCall
    /\ ret = NoCall

\* setup_terminal()?  A step that fails leaves the mode it was switching
\* in either state; main returns at once on failure.
SetupTerminal ==
    /\ pc = "setup"
    /\ \/ \E r \in BOOLEAN :                 \* enable_raw_mode fails
            /\ term' = [term EXCEPT !.raw = r]
            /\ pc' = "exit_setup_err"
       \/ \E a \in BOOLEAN :                 \* execute!(EnterAlternateScreen..) fails
            /\ term' = [raw |-> TRUE, alt |-> a]
            /\ pc' = "exit_setup_err"
       \/ /\ term' = [raw |-> TRUE, alt |-> TRUE]   \* Terminal::new fails
          /\ pc' = "exit_setup_err"
       \/ /\ term' = [raw |-> TRUE, alt |-> TRUE]
          /\ pc' = "new"
    /\ UNCHANGED <<restoreCalled, appVars, res, launched, opened,
                   enterHighlighted, enterSearchEmpty>>
    /\ UNCHANGED fnVars

\* App::new()?  with load_instances returning Err.
NewAppFails ==
    /\ pc = "new"
    /\ \E f \in FileSystems : ~load_instances(f).ok
    /\ pc' = "exit_new_err"
    /\ UNCHANGED <<term, restoreCalled, appVars, res, launched, opened,
                   enterHighlighted, enterSearchEmpty>>
    /\ UNCHANGED fnVars

\* App::new() with load_instances returning Ok for the file system f.
NewApp ==
    /\ pc = "new"
    /\ \E f \in FileSystems :
          /\ load_instances(f).ok
          /\ instances' = load_instances(f).val
    /\ filtered_instances' = instances'
    /\ selected' = IF instances' # <<>> THEN 0 ELSE None
    /\ should_quit' = FALSE
    /\ should_launch' = FALSE
    /\ sort_mode' = "Name"
    /\ search_mode' = FALSE
    /\ search_query' = <<>>
    /\ details_mode' = FALSE
    /\ pc' = "run"
    /\ UNCHANGED <<term, restoreCalled, res, launched, opened,
                   enterHighlighted, enterSearchEmpty>>
    /\ UNCHANGED fnVars

\* Variant: the result of restore_terminal is dropped instead of returned.
RestoreTerminal_IgnoreFailure ==
    /\ pc = "restore"
    /\ restoreCalled' = TRUE
    /\ \/ \E r \in BOOLEAN : term' = [term EXCEPT !.raw = r]
       \/ \E a \in BOOLEAN : term' = [raw |-> FALSE, alt |-> a]
       \/ term' = [raw |-> FALSE, alt |-> FALSE]
    /\ pc' = IF res = "err" THEN "exit_run_err"
             ELSE IF should_launch THEN "launch" ELSE "exit_ok"
    /\ UNCHANGED <<appVars, res, launched, opened, enterHighlighted,
                   enterSearchEmpty>>
    /\ UNCHANGED fnVars

\* restore_terminal()?  then the report of a run_app error.
RestoreTerminal ==
    /\ pc = "restore"
    /\ restoreCalled' = TRUE
    /\ \/ \E r \in BOOLEAN :                 \* disable_raw_mode fails
            /\ term' = [term EXCEPT !.raw = r]
            /\ pc' = "exit_restore_err"
       \/ \E a \in BOOLEAN :                 \* execute!(LeaveAlternateScreen..) fails
            /\ term' = [raw |-> FALSE, alt |-> a]
            /\ pc' = "exit_restore_err"
       \/ /\ term' = [raw |-> FALSE, alt |-> FALSE]   \* show_cursor fails
          /\ pc' = "exit_restore_err"
       \/ /\ term' = [raw |-> FALSE, alt |-> FALSE]
          /\ pc' = IF res = "err" THEN "exit_run_err"
                   ELSE IF should_launch THEN "launch" ELSE "exit_ok"
    /\ UNCHANGED <<appVars, res, launched, opened, enterHighlighted,
                   enterSearchEmpty>>
    /\ UNCHANGED fnVars

\* app.launch_selected()? : launch_instance spawns the script for the
\* selected instance; the spawn can fail.
LaunchSelected ==
    /\ pc = "launch"
    /\ LET inst == SelectedInstance(filtered_instances, selected)
       IN  IF inst = NoInstance
           THEN /\ pc' = "exit_ok"
                /\ UNCHANGED launched
           ELSE /\ launched' = inst
                /\ pc' \in {"exit_ok", "exit_launch_err"}
    /\ UNCHANGED <<term, restoreCalled, appVars, res, opened,
                   enterHighlighted, enterSearchEmpty>>
    /\ UNCHANGED fnVars

----------------------------------------------------------------------------
(* run_app: one action per branch of the key dispatch; each is a whole     *)
(* iteration of the loop, the should_quit test at its end included.        *)

\* Variant: the loop does not test should_quit.
EndIteration_NoBreak ==
    /\ pc' = "run"
    /\ res' = res

\* `if app.should_quit { break; }` and the Ok(()) handed back to main.
EndIteration ==
    /\ pc' = IF should_quit' THEN "restore" ELSE "run"
    /\ res' = IF should_quit' THEN "ok" ELSE res

\* Variant: the visible subset is not rebuilt.
update_filter_Stale ==
    /\ filtered_instances' = filtered_instances
    /\ selected' = ResetSelection(filtered_instances', selected)

\* App::update_filter with the collection and query of the successor state.
update_filter ==
    /\ filtered_instances' = FilterInstances(instances', search_query')
    /\ selected' = ResetSelection(filtered_instances', selected)

\* terminal.draw(..)? or event::read()? fails: run_app returns the error.
LoopIoError ==
    /\ pc = "run"
    /\ res' = "err"
    /\ pc' = "restore"
    /\ UNCHANGED <<term, restoreCalled, appVars, launched, opened,
                   enterHighlighted, enterSearchEmpty>>
    /\ UNCHANGED fnVars

\* An event that is no key press, or a key no branch matches.
IgnoredEvent ==
    /\ pc = "run"
    /\ UNCHANGED appVars
    /\ EndIteration
    /\ UNCHANGED <<term, restoreCalled, launched, opened, enterHighlighted,
                   enterSearchEmpty>>
    /\ UNCHANGED fnVars

\* Variant: Escape is taken as the quit key although search mode is on.
SearchEsc_Quits ==
    /\ pc = "run" /\ search_mode
    /\ search_mode' = FALSE
    /\ search_query' = <<>>
    /\ should_quit' = TRUE
    /\ UNCHANGED <<instances, should_launch, sort_mode, details_mode>>
    /\ update_filter
    /\ EndIteration
    /\ UNCHANGED <<term, restoreCalled, launched, opened, enterHighlighted,
                   enterSearchEmpty>>
    /\ UNCHANGED fnVars

SearchEsc ==
    /\ pc = "run" /\ search_mode
    /\ search_mode' = FALSE
    /\ search_query' = <<>>
    /\ UNCHANGED <<instances, should_quit, should_launch, sort_mode, details_mode>>
    /\ update_filter
    /\ EndIteration
    /\ UNCHANGED <<term, restoreCalled, launched, opened, enterHighlighted,
                   enterSearchEmpty>>
    /\ UNCHANGED fnVars

\* Variant: the details key is honoured although search mode is on.
SearchChar_DetailsKey(c) ==
    /\ pc = "run" /\ search_mode
    /\ Len(search_query) < MaxQueryLen
    /\ search_query' = Append(search_query, c)
    /\ details_mode' = IF c = "i" THEN ~details_mode ELSE details_mode
    /\ UNCHANGED <<instances, should_quit, should_launch, sort_mode, search_mode>>
    /\ update_filter
    /\ EndIteration
    /\ UNCHANGED <<term, restoreCalled, launched, opened, enterHighlighted,
                   enterSearchEmpty>>
    /\ UNCHANGED fnVars

SearchChar(c) ==
    /\ pc = "run" /\ search_mode
    /\ Len(search_query) < MaxQueryLen
    /\ search_query' = Append(search_query, c)
    /\ UNCHANGED <<instances, should_quit, should_launch, sort_mode,
                   search_mode, details_mode>>
    /\ update_filter
    /\ EndIteration
    /\ UNCHANGED <<term, restoreCalled, launched, opened, enterHighlighted,
                   enterSearchEmpty>>
    /\ UNCHANGED fnVars

SearchBackspace ==
    /\ pc = "run" /\ search_mode
    /\ search_query' = IF search_query = <<>> THEN <<>>
                       ELSE SubSeq(search_query, 1, Len(search_query) - 1)
    /\ UNCHANGED <<instances, should_quit, should_launch, sort_mode,
                   search_mode, details_mode>>
    /\ update_filter
    /\ EndIteration
    /\ UNCHANGED <<term, restoreCalled, launched, opened, enterHighlighted,
                   enterSearchEmpty>>
    /\ UNCHANGED fnVars

\* Variant: Enter leaves Search state without clearing the query and
\* without recomputing the visible subset.
SearchEnter_KeepsFilter ==
    /\ pc = "run" /\ search_mode
    /\ enterHighlighted' = SelectedInstance(filtered_instances, selected)
    /\ enterSearchEmpty' = (filtered_instances = <<>>)
    /\ search_mode' = FALSE
    /\ UNCHANGED <<instances, filtered_instances, selected, search_query,
                   sort_mode, details_mode>>
    /\ should_quit' = TRUE
    /\ should_launch' = TRUE
    /\ EndIteration
    /\ UNCHANGED <<term, restoreCalled, launched, opened>>
    /\ UNCHANGED fnVars

SearchEnter ==
    /\ pc = "run" /\ search_mode
    /\ enterHighlighted' = SelectedInstance(filtered_instances, selected)
    /\ enterSearchEmpty' = (filtered_instances = <<>>)
    /\ search_mode' = FALSE
    /\ search_query' = <<>>
    /\ UNCHANGED <<instances, sort_mode, details_mode>>
    /\ update_filter
    /\ should_quit' = TRUE
    /\ should_launch' = TRUE
    /\ EndIteration
    /\ UNCHANGED <<term, restoreCalled, launched, opened>>
    /\ UNCHANGED fnVars

SearchDown ==
    /\ pc = "run" /\ search_mode
    /\ selected' = next(filtered_instances, selected)
    /\ UNCHANGED <<instances, filtered_instances, should_quit, should_launch,
                   sort_mode, search_mode, search_query, details_mode>>
    /\ EndIteration
    /\ UNCHANGED <<term, restoreCalled, launched, opened, enterHighlighted,
                   enterSearchEmpty>>
    /\ UNCHANGED fnVars

SearchUp ==
    /\ pc = "run" /\ search_mode
    /\ selected' = previous(filtered_instances, selected)
    /\ UNCHANGED <<instances, filtered_instances, should_quit, should_launch,
                   sort_mode, search_mode, search_query, details_mode>>
    /\ EndIteration
    /\ UNCHANGED <<term, restoreCalled, launched, opened, enterHighlighted,
                   enterSearchEmpty>>
    /\ UNCHANGED fnVars

NormalQuit ==
    /\ pc = "run" /\ ~search_mode
    /\ should_quit' = TRUE
    /\ UNCHANGED <<instances, filtered_instances, selected, should_launch,
                   sort_mode, search_mode, search_query, details_mode>>
    /\ EndIteration
    /\ UNCHANGED <<term, restoreCalled, launched, opened, enterHighlighted,
                   enterSearchEmpty>>
    /\ UNCHANGED fnVars

NormalDown ==
    /\ pc = "run" /\ ~search_mode
    /\ selected' = next(filtered_instances, selected)
    /\ UNCHANGED <<instances, filtered_instances, should_quit, should_launch,
                   sort_mode, search_mode, search_query, details_mode>>
    /\ EndIteration
    /\ UNCHANGED <<term, restoreCalled, launched, opened, enterHighlighted,
                   enterSearchEmpty>>
    /\ UNCHANGED fnVars

NormalUp ==
    /\ pc = "run" /\ ~search_mode
    /\ selected' = previous(filtered_instances, selected)
    /\ UNCHANGED <<instances, filtered_instances, should_quit, should_launch,
                   sort_mode, search_mode, search_query, details_mode>>
    /\ EndIteration
    /\ UNCHANGED <<term, restoreCalled, launched, opened, enterHighlighted,
                   enterSearchEmpty>>
    /\ UNCHANGED fnVars

NormalEnter ==
    /\ pc = "run" /\ ~search_mode
    /\ enterHighlighted' = SelectedInstance(filtered_instances, selected)
    /\ UNCHANGED enterSearchEmpty
    /\ should_quit' = TRUE
    /\ should_launch' = TRUE
    /\ UNCHANGED <<instances, filtered_instances, selected, sort_mode,
                   search_mode, search_query, details_mode>>
    /\ EndIteration
    /\ UNCHANGED <<term, restoreCalled, launched, opened>>
    /\ UNCHANGED fnVars

\* 'o' with xdg-open started, or with nothing selected.
NormalOpen ==
    /\ pc = "run" /\ ~search_mode
    /\ opened' = LET inst == SelectedInstance(filtered_instances, selected)
                 IN  IF inst = NoInstance THEN opened ELSE TRUE
    /\ UNCHANGED appVars
    /\ EndIteration
    /\ UNCHANGED <<term, restoreCalled, launched, enterHighlighted,
                   enterSearchEmpty>>
    /\ UNCHANGED fnVars

\* 'o' when xdg-open cannot be spawned: `?` returns the error from run_app.
NormalOpenFails ==
    /\ pc = "run" /\ ~search_mode
    /\ SelectedInstance(filtered_instances, selected) # NoInstance
    /\ res' = "err"
    /\ pc' = "restore"
    /\ UNCHANGED <<term, restoreCalled, appVars, launched, opened,
                   enterHighlighted, enterSearchEmpty>>
    /\ UNCHANGED fnVars

\* 's': App::cycle_sort.
NormalSort ==
    /\ pc = "run" /\ ~search_mode
    /\ sort_mode' = SortMode_next(sort_mode)
    /\ instances' = sort_instances(sort_mode', instances)
    /\ filtered_instances' = FilterInstances(instances', search_query)
    /\ selected' = IF filtered_instances' # <<>>
                   THEN 0
                   ELSE ResetSelection(filtered_instances', selected)
    /\ UNCHANGED <<should_quit, should_launch, search_mode, search_query,
                   details_mode>>
    /\ EndIteration
    /\ UNCHANGED <<term, restoreCalled, launched, opened, enterHighlighted,
                   enterSearchEmpty>>
    /\ UNCHANGED fnVars

\* '/': App::enter_search_mode.
NormalSearch ==
    /\ pc = "run" /\ ~search_mode
    /\ search_mode' = TRUE
    /\ search_query' = <<>>
    /\ UNCHANGED <<instances, should_quit, should_launch, sort_mode, details_mode>>
    /\ update_filter
    /\ EndIteration
    /\ UNCHANGED <<term, restoreCalled, launched, opened, enterHighlighted,
                   enterSearchEmpty>>
    /\ UNCHANGED fnVars

\* 'i': App::toggle_details.
NormalDetails ==
    /\ pc = "run" /\ ~search_mode
    /\ details_mode' = ~details_mode
    /\ UNCHANGED <<instances, filtered_instances, selected, should_quit,
                   should_launch, sort_mode, search_mode, search_query>>
    /\ EndIteration
    /\ UNCHANGED <<term, restoreCalled, launched, opened, enterHighlighted,
                   enterSearchEmpty>>
    /\ UNCHANGED fnVars

Next ==
    \/ SetupTerminal
    \/ NewAppFails
    \/ NewApp
    \/ LoopIoError
    \/ IgnoredEvent
    \/ SearchEsc
    \/ \E c \in Chars : SearchChar(c)
    \/ SearchBackspace
    \/ SearchEnter
    \/ SearchDown
    \/ SearchUp
    \/ NormalQuit
    \/ NormalDown
    \/ NormalUp
    \/ NormalEnter
    \/ NormalOpen
    \/ NormalOpenFails
    \/ NormalSort
    \/ NormalSearch
    \/ NormalDetails
    \/ RestoreTerminal
    \/ LaunchSelected

Spec == Init /\ [][Next]_vars

----------------------------------------------------------------------------
(* The pure functions of the program, each called on its own on an input   *)
(* drawn from a bounded set.                                               *)

DurationCalls == {[fn |-> "format_duration", arg |-> n] : n \in 0..MaxSeconds}

\* Elapsed times around the multiples of a minute, an hour and a day.
ElapsedSamples ==
    { e \in { u * q + d : u \in {60, 3600, 86400}, q \in 0..MaxUnits,
                          d \in {-1, 0, 1} } :
        0 <= e /\ e < NowMs \div 1000 }

\* Stored instants: in the past by a sampled time plus a fraction of a
\* second, and in the future.
TimestampCalls ==
    { [fn |-> "format_timestamp", arg |-> t] :
        t \in { NowMs - 1000 * e - r : e \in ElapsedSamples, r \in {0, 1, 999} }
              \cup { NowMs + k : k \in {1, 999, 1000, 86400000} } }

LoadCalls == { [fn |-> "load_instances", arg |-> f] : f \in FileSystems }

Calls == DurationCalls \cup TimestampCalls \cup LoadCalls

FnInit ==
    /\ InitMain
    /\ call \in Calls
    /\ ret = NoCall

CallFormatDuration ==
    /\ call.fn = "format_duration" /\ ret = NoCall
    /\ ret' = [fn |-> call.fn, val |-> format_duration(call.arg)]
    /\ UNCHANGED <<call, mainVars>>

CallFormatTimestamp ==
    /\ call.fn = "format_timestamp" /\ ret = NoCall
    /\ ret' = [fn |-> call.fn, val |-> format_timestamp(call.arg, NowMs)]
    /\ UNCHANGED <<call, mainVars>>

CallLoadInstances ==
    /\ call.fn = "load_instances" /\ ret = NoCall
    /\ ret' = [fn |-> call.fn, val |-> load_instances(call.arg)]
    /\ UNCHANGED <<call, mainVars>>

FnNext ==
    \/ CallFormatDuration
    \/ CallFormatTimestamp
    \/ CallLoadInstances

FnSpec == FnInit /\ [][FnNext]_vars

----------------------------------------------------------------------------
(* Properties *)

Exits == {"exit_setup_err", "exit_new_err", "exit_restore_err",
          "exit_run_err", "exit_launch_err", "exit_ok"}

\* Index (1-based) of instance x in vector v; instances differ in path.
PosIn(v, x) == CHOOSE i \in 1..Len(v) : v[i] = x

\* C1: when Enter is pressed while an instance is highlighted, the instance
\* handed to the launch collaborator is the one that was highlighted in the
\* visible subset at that moment (Normal state, or Search state with any
\* query).
C1_LaunchesHighlighted ==
    (pc \in {"exit_ok", "exit_launch_err"} /\ should_launch
        /\ enterHighlighted # NoInstance)
    => launched = enterHighlighted

\* C2: the launch collaborator runs only after the interactive loop has
\* ended and restore_terminal has completed: never while the terminal is in
\* raw or alternate-screen mode, and not at all when restoration failed.
C2_LaunchAfterRestore ==
    /\ (pc = "launch" \/ launched # NoInstance)
        => (restoreCalled /\ ~term.raw /\ ~term.alt /\ should_quit /\ res = "ok")
    /\ pc = "exit_restore_err" => launched = NoInstance

C2_Witness ==
    pc = "exit_ok" /\ launched # NoInstance /\ restoreCalled /\ ~term.raw

\* C3: after a LastPlayed (resp. Playtime) sort every instance whose
\* last_played_ts (resp. time_played_secs) is absent stands strictly after
\* every instance whose value is present, 0 included.
C3_AbsentLast ==
    /\ sort_mode = "LastPlayed" =>
          \A i, j \in 1..Len(instances) :
              (instances[i].last_played_ts = None
                  /\ instances[j].last_played_ts # None) => j < i
    /\ sort_mode = "Playtime" =>
          \A i, j \in 1..Len(instances) :
              (instances[i].time_played_secs = None
                  /\ instances[j].time_played_secs # None) => j < i

\* The value a sort mode orders by.
SortKey(m, inst) ==
    CASE m = "Name" -> inst.name
      [] m = "LastPlayed" -> <<inst.last_played_ts>>
      [] m = "Playtime" -> <<inst.time_played_secs>>

KeepsTies(m, before, after) ==
    \A i, j \in 1..Len(before) :
        (i < j /\ SortKey(m, before[i]) = SortKey(m, before[j]))
        => PosIn(after, before[i]) < PosIn(after, before[j])

\* C4: every sort is stable: two instances with equal sort keys keep the
\* relative order they had in the full collection immediately before the
\* sort.
C4_StableSort ==
    [][ (pc = "run" /\ sort_mode' # sort_mode)
            => KeepsTies(sort_mode', instances, instances') ]_vars

C4_Witness ==
    /\ pc = "run" /\ sort_mode = "Playtime"
    /\ \E i, j \in 1..Len(instances) :
          /\ i < j
          /\ instances[i].path = 5 /\ instances[j].path = 2

\* C5: a filter recomputation that leaves the selection index out of range
\* of the visible subset sets it to 0 when the subset is non-empty and to
\* none when it is empty; so the selection is none whenever the visible
\* subset is empty.
C5_SelectionReset ==
    [][ /\ ( /\ pc = "run"
             /\ \/ search_query' # search_query
                \/ search_mode' # search_mode
                \/ sort_mode' # sort_mode
             /\ selected # None
             /\ selected >= Len(filtered_instances') )
          => selected' = IF filtered_instances' # <<>> THEN 0 ELSE None
        /\ filtered_instances' = <<>> => selected' = None ]_vars

\* C6: with n >= 1 visible items navigate-down goes from n-1 to 0 and
\* otherwise one up, navigate-up goes from 0 to n-1 and otherwise one down;
\* with no visible item both leave the selection and all other state as is.
C6_Wraparound ==
    [][ LET n == Len(filtered_instances)
            rest == <<term, restoreCalled, instances, filtered_instances,
                      should_quit, should_launch, sort_mode, search_mode,
                      search_query, details_mode, res, launched, opened,
                      enterHighlighted, enterSearchEmpty>>
        IN  /\ (NormalDown \/ SearchDown) =>
                /\ UNCHANGED rest /\ pc' = "run"
                /\ n = 0 => selected' = selected
                /\ (n >= 1 /\ selected # None) =>
                      selected' = IF selected = n - 1 THEN 0 ELSE selected + 1
            /\ (NormalUp \/ SearchUp) =>
                /\ UNCHANGED rest /\ pc' = "run"
                /\ n = 0 => selected' = selected
                /\ (n >= 1 /\ selected # None) =>
                      selected' = IF selected = 0 THEN n - 1 ELSE selected - 1
      ]_vars

C6_Witness ==
    /\ pc = "run" /\ search_mode
    /\ Len(filtered_instances) = 2 /\ Len(instances) = 3
    /\ selected = 1 /\ details_mode

\* C7: a failure to start the open-folder collaborator is not fatal: the
\* key leaves the application state as it is, sets no quit intent, and the
\* loop goes on taking input.
C7_OpenFailureIgnored ==
    [][ NormalOpenFails => (pc' = "run" /\ res' = res /\ UNCHANGED appVars) ]_vars

\* C8: a fatal failure after the terminal was put into raw / alternate
\* screen mode (HOME unreadable while loading, an I/O error from the loop,
\* a failed spawn of the launch collaborator) ends the program only after
\* restore_terminal has run.
C8_RestoreBeforeExit ==
    pc \in (Exits \ {"exit_setup_err"}) => restoreCalled

CasePairs == {<<"A", "a">>, <<"B", "b">>, <<"G", "g">>}

SameLetter(a, b) == a = b \/ <<a, b>> \in CasePairs \/ <<b, a>> \in CasePairs

ContainsIgnoreCase(n, q) ==
    \E off \in 0..(Len(n) - Len(q)) :
        \A k \in 1..Len(q) : SameLetter(n[off + k], q[k])

\* f lists, in the order of v, exactly the elements of v whose name holds
\* q without regard to case.
IsOrderedMatchList(f, v, q) ==
    LET idx == {i \in 1..Len(v) : ContainsIgnoreCase(v[i].name, q)}
    IN  /\ Len(f) = Cardinality(idx)
        /\ \A k \in 1..Len(f) :
              f[k] = v[CHOOSE i \in idx : Cardinality({j \in idx : j <= i}) = k]

\* C9: the filter yields exactly the instances whose name contains the
\* query as a case-insensitive substring, in the order of the full
\* collection; an empty query yields the full collection, so after a sort
\* cycle with an empty query the visible subset is the full collection in
\* the new order.
C9_FilterExact ==
    pc = "run" =>
        /\ IsOrderedMatchList(FilterInstances(instances, search_query),
                              instances, search_query)
        /\ FilterInstances(instances, <<>>) = instances
        /\ search_query = <<>> => filtered_instances = instances

C9_Witness ==
    /\ pc = "run" /\ search_query = <<"g">>
    /\ filtered_instances # <<>>
    /\ Len(filtered_instances) < Len(instances)

\* C10: in every reachable state the visible subset is the filter applied
\* to the current full collection and the current query.
C10_FilterUpToDate ==
    filtered_instances = FilterInstances(instances, search_query)

C10_Witness ==
    /\ pc = "run" /\ Len(search_query) = 2
    /\ sort_mode = "LastPlayed"
    /\ filtered_instances # <<>>
    /\ filtered_instances # instances

\* The number a statistic is ordered by, an absent one counting as 0.
StatValue(o) == IF o = None THEN 0 ELSE o

\* v is in the order of sort mode m.
IsOrderedBy(m, v) ==
    \A i, j \in 1..Len(v) :
        i < j =>
            CASE m = "Name" -> CmpStr(v[i].name, v[j].name) <= 0
              [] m = "LastPlayed" ->
                    StatValue(v[i].last_played_ts) >= StatValue(v[j].last_played_ts)
              [] m = "Playtime" ->
                    StatValue(v[i].time_played_secs) >= StatValue(v[j].time_played_secs)

IsPermutation(v, w) ==
    /\ Len(v) = Len(w)
    /\ {v[i] : i \in 1..Len(v)} = {w[i] : i \in 1..Len(w)}

CycleOrder == <<"Name", "LastPlayed", "Playtime", "Name">>

\* C11: the cycle-sort key in Normal state moves the sort mode one step in
\* the cycle Name -> LastPlayed -> Playtime -> Name (three presses lead back
\* to the mode they started from), re-sorts the full collection by the new
\* mode, and leaves the selection on index 0 whenever the visible subset is
\* non-empty, whatever it was before.
C11_CycleSort ==
    [][ NormalSort =>
          /\ \E k \in 1..3 : sort_mode = CycleOrder[k] /\ sort_mode' = CycleOrder[k + 1]
          /\ SortMode_next(SortMode_next(SortMode_next(sort_mode))) = sort_mode
          /\ IsPermutation(instances, instances')
          /\ IsOrderedBy(sort_mode', instances')
          /\ filtered_instances' # <<>> => selected' = 0 ]_vars

C11_Witness ==
    /\ pc = "run" /\ sort_mode = "LastPlayed" /\ details_mode
    /\ Len(instances) = 3 /\ selected = 0
    /\ instances[1].path = 3 /\ instances[3].path = 1

\* C12: in Search state a printable-character key, the keys bound to
\* commands in Normal state included, is appended to the query and does
\* nothing else: sort mode, order of the full collection, details flag, quit
\* and launch intents stay as they are and the open-folder collaborator is
\* not invoked.
C12_ModalExclusivity ==
    [][ \A c \in Chars :
          SearchChar(c) =>
            /\ search_query' = Append(search_query, c)
            /\ search_mode' /\ pc' = "run"
            /\ UNCHANGED <<sort_mode, instances, details_mode, should_quit,
                           should_launch, opened, launched, term, res>> ]_vars

C12_Witness ==
    /\ pc = "run" /\ search_mode
    /\ search_query = <<"s", "i">>
    /\ sort_mode = "Name" /\ ~details_mode /\ ~opened /\ ~should_quit
    /\ Len(instances) = 3

\* C13: '/' in Normal state leads to Search state with an empty query and
\* the visible subset equal to the full collection; Escape in Search state
\* leads back to Normal state with the query cleared and the visible subset
\* equal to the full collection, and sets no quit intent; backspace in
\* Search state removes the last character of the query (nothing on an
\* empty query) and stays in Search state.
C13_SearchTransitions ==
    [][ /\ NormalSearch =>
            /\ search_mode' /\ search_query' = <<>>
            /\ filtered_instances' = instances' /\ instances' = instances
            /\ pc' = "run"
        /\ SearchEsc =>
            /\ ~search_mode' /\ search_query' = <<>>
            /\ filtered_instances' = instances' /\ instances' = instances
            /\ ~should_quit' /\ ~should_launch' /\ pc' = "run"
        /\ SearchBackspace =>
            /\ search_mode' /\ pc' = "run"
            /\ search_query = <<>> => UNCHANGED appVars
            /\ search_query # <<>> =>
                  /\ Len(search_query') = Len(search_query) - 1
                  /\ \A k \in 1..Len(search_query') :
                        search_query'[k] = search_query[k]
      ]_vars

C13_Witness ==
    /\ pc = "run" /\ search_mode /\ search_query = <<>>
    /\ sort_mode = "Playtime" /\ opened
    /\ Len(instances) = 2 /\ filtered_instances = instances /\ selected = 1

\* C14: the quit and launch intents are write-once: once true they are never
\* set back to false; the quit key sets the quit intent only and the confirm
\* key sets both, so the launch intent implies the quit intent; once the
\* quit intent is true the loop has ended in that very iteration, and no
\* further event changes the application state.
C14_WriteOnceIntents ==
    [][ /\ should_quit => should_quit'
        /\ should_launch => should_launch'
        /\ should_launch' => should_quit'
        /\ should_quit' => pc' # "run"
        /\ should_quit => UNCHANGED appVars
        /\ NormalQuit => (should_quit' /\ ~should_launch')
        /\ (NormalEnter \/ SearchEnter) => (should_quit' /\ should_launch')
      ]_vars

C14_Witness ==
    /\ pc = "exit_ok" /\ should_quit /\ ~should_launch
    /\ res = "ok" /\ launched = NoInstance /\ Len(instances) = 3

\* C15: throughout a session the full collection is only ever permuted: no
\* event adds, removes or modifies an entry, so it always holds exactly the
\* instances that were loaded at startup.
C15_OnlyPermuted ==
    [][ pc # "new" => IsPermutation(instances, instances') ]_vars

C15_Witness ==
    /\ pc = "run" /\ sort_mode = "Playtime" /\ search_mode
    /\ Len(instances) = 3 /\ instances[3].path = 1
    /\ Len(filtered_instances) = 1

\* The instances of the scenario: Alpha never played, Beta played 3661 s and
\* last 2 days ago, Gamma played 30 s and last 30 minutes ago.
ScenarioAlpha == Instance(Str_Alpha, 1, None, None, <<>>)
ScenarioBeta == Instance(Str_Beta, 2, NowMs - 2 * 86400 * 1000, 3661, <<Str_1_20>>)
ScenarioGamma == Instance(Str_Gamma, 3, NowMs - 30 * 60 * 1000, 30, <<>>)

IsScenario ==
    /\ pc = "run"
    /\ Len(instances) = 3
    /\ {instances[i] : i \in 1..3} = {ScenarioAlpha, ScenarioBeta, ScenarioGamma}

\* C16: with the instances Alpha, Beta and Gamma of the scenario the Name
\* order is [Alpha, Beta, Gamma], the Playtime order [Beta, Gamma, Alpha] and
\* the LastPlayed order [Gamma, Beta, Alpha]; in Name order the query "a"
\* shows all three and the query "g" shows Gamma only.
C16_Scenario ==
    IsScenario =>
        /\ sort_mode = "Name" =>
              instances = <<ScenarioAlpha, ScenarioBeta, ScenarioGamma>>
        /\ sort_mode = "Playtime" =>
              instances = <<ScenarioBeta, ScenarioGamma, ScenarioAlpha>>
        /\ sort_mode = "LastPlayed" =>
              instances = <<ScenarioGamma, ScenarioBeta, ScenarioAlpha>>
        /\ (sort_mode = "Name" /\ search_query = <<"a">>) =>
              filtered_instances = <<ScenarioAlpha, ScenarioBeta, ScenarioGamma>>
        /\ (sort_mode = "Name" /\ search_query = <<"g">>) =>
              filtered_instances = <<ScenarioGamma>>

C16_Witness ==
    /\ IsScenario /\ sort_mode = "Name" /\ opened /\ details_mode
    /\ search_query = <<"g">>
    /\ filtered_instances = <<ScenarioGamma>>

\* C19: format_duration(s) is "<H>h <M>m" for s >= 3600, "<M>m" for
\* 60 <= s < 3600 and "<s>s" for s < 60, with H = s div 3600 and
\* M = (s mod 3600) div 60; 0 -> "0s", 59 -> "59s", 60 -> "1m",
\* 3599 -> "59m", 3600 -> "1h 0m".
C19_FormatDuration ==
    ret.fn = "format_duration" =>
        LET s == call.arg
            H == s \div 3600
            M == (s % 3600) \div 60
        IN  /\ s >= 3600 =>
                ret.val = Decimal(H) \o <<"h", " ">> \o Decimal(M) \o <<"m">>
            /\ (60 <= s /\ s < 3600) => ret.val = Decimal(M) \o <<"m">>
            /\ s < 60 => ret.val = Decimal(s) \o <<"s">>
            /\ s = 0 => ret.val = <<"0", "s">>
            /\ s = 59 => ret.val = <<"5", "9", "s">>
            /\ s = 60 => ret.val = <<"1", "m">>
            /\ s = 3599 => ret.val = <<"5", "9", "m">>
            /\ s = 3600 => ret.val = <<"1", "h", " ", "0", "m">>

C19_Witness ==
    /\ ret.fn = "format_duration" /\ call.arg = 3661
    /\ ret.val = <<"1", "h", " ", "1", "m">>

\* C20: for an instant e whole seconds before now format_timestamp gives
\* "<e div 86400> days ago" when e >= 86400 (86400 -> "1 days ago"), else
\* "<e div 3600> hours ago" when e >= 3600, else "<e div 60> minutes ago"
\* when e >= 60, else "Just now" (59 -> "Just now"); for an instant in the
\* future it gives the fixed fallback string.
C20_FormatTimestamp ==
    ret.fn = "format_timestamp" =>
        LET t == call.arg
            e == (NowMs - t) \div 1000
        IN  /\ t > NowMs => ret.val = Str_Recently
            /\ (t <= NowMs /\ e >= 86400) =>
                  ret.val = Decimal(e \div 86400) \o Str_DaysAgo
            /\ (t <= NowMs /\ 3600 <= e /\ e < 86400) =>
                  ret.val = Decimal(e \div 3600) \o Str_HoursAgo
            /\ (t <= NowMs /\ 60 <= e /\ e < 3600) =>
                  ret.val = Decimal(e \div 60) \o Str_MinutesAgo
            /\ (t <= NowMs /\ e < 60) => ret.val = Str_JustNow
            /\ t = NowMs - 86400 * 1000 =>
                  ret.val = <<"1", " ", "d", "a", "y", "s", " ", "a", "g", "o">>
            /\ t = NowMs - 59 * 1000 => ret.val = Str_JustNow

C20_Witness ==
    /\ ret.fn = "format_timestamp" /\ call.arg = NowMs - 86400 * 1000
    /\ ret.val = <<"1">> \o Str_DaysAgo

\* The entry is a directory whose instance.cfg is read, is an INI document
\* and gives a name.
HasValidName(e) ==
    /\ e.is_dir /\ e.cfg.exists /\ e.cfg.readable /\ e.cfg.well_formed
    /\ e.cfg.name # <<>>

\* The value of an optional numeric key is there and is a number.
IsNumber(o) ==
    /\ o # <<>> /\ o[1] # <<>>
    /\ \A i \in 1..Len(o[1]) :
          o[1][i] \in {"0", "1", "2", "3", "4", "5", "6", "7", "8", "9"}

\* The entry has no instance.cfg, or one that cannot be read or is not an
\* INI document with a [General] section.
HasNoUsableConfig(e) ==
    e.is_dir /\ (~e.cfg.exists \/ ~e.cfg.readable \/ ~e.cfg.well_formed)

\* mmc-pack.json is there and reading or parsing it fails.
HasFailingManifest(e) ==
    e.pack.exists /\ (~e.pack.readable \/ ~e.pack.well_formed)

\* C17: a directory whose instance.cfg has a valid name and an absent or
\* malformed lastLaunchTime or totalTimePlayed is in the collection, with
\* that field absent.
C17_MalformedOptional ==
    (ret.fn = "load_instances" /\ ret.val.ok /\ call.arg.root_exists) =>
        \A k \in 1..Len(call.arg.entries) :
            LET e == call.arg.entries[k]
            IN  HasValidName(e) =>
                  \E j \in 1..Len(ret.val.val) :
                     LET inst == ret.val.val[j]
                     IN  /\ inst.path = e.path
                         /\ inst.name = e.cfg.name[1]
                         /\ ~IsNumber(e.cfg.lastLaunchTime)
                               => inst.last_played_ts = None
                         /\ ~IsNumber(e.cfg.totalTimePlayed)
                               => inst.time_played_secs = None

\* C18: with HOME readable, a missing root gives Ok with an empty
\* collection; with the root listed, discovery never returns an error
\* whatever the entries hold; a directory without a usable instance.cfg
\* has no instance; a directory whose config parses has exactly one, with
\* the version absent when its manifest fails; and the collection is
\* ascending by name.
C18_SkipAndContinue ==
    (ret.fn = "load_instances" /\ call.arg.home_ok) =>
        LET f == call.arg
            v == ret.val.val
        IN  /\ ~f.root_exists => ret.val = Ok(<<>>)
            /\ (f.root_exists /\ f.readable) =>
                  /\ ret.val.ok
                  /\ \A k \in 1..Len(f.entries) :
                        LET e == f.entries[k]
                            js == { j \in 1..Len(v) : v[j].path = e.path }
                        IN  /\ HasNoUsableConfig(e) => js = {}
                            /\ ( /\ HasValidName(e)
                                 /\ e.cfg.lastLaunchTime = <<>> \/ IsNumber(e.cfg.lastLaunchTime)
                                 /\ e.cfg.totalTimePlayed = <<>> \/ IsNumber(e.cfg.totalTimePlayed) )
                               => /\ Cardinality(js) = 1
                                  /\ \A j \in js :
                                        /\ v[j].name = e.cfg.name[1]
                                        /\ HasFailingManifest(e) => v[j].mc_version = <<>>
                  /\ \A i, j \in 1..Len(v) :
                        i < j => CmpStr(v[i].name, v[j].name) <= 0

\* Gamma (manifest does not parse) is listed before Alpha, with a
\* directory whose instance.cfg is not INI.
C18_Witness ==
    /\ ret.fn = "load_instances" /\ ret.val.ok
    /\ call.arg.root_exists /\ Len(call.arg.entries) = 3
    /\ call.arg.entries[1].path = 3
    /\ call.arg.entries[2].path = 9
    /\ call.arg.entries[3].path = 1
    /\ Len(ret.val.val) = 2
    /\ ret.val.val[1].name = Str_Alpha
    /\ ret.val.val[2].name = Str_Gamma /\ ret.val.val[2].mc_version = <<>>

\* C21: when Enter was pressed in Search state while the visible subset
\* was empty, launch_instance is called for no instance.
C21_NoLaunchOnEmptySubset ==
    enterSearchEmpty => launched = NoInstance

\* C22: whenever the visible subset is not empty the selection is an index
\* into it.
C22_SelectionInRange ==
    filtered_instances # <<>> =>
        /\ selected # None
        /\ 0 <= selected /\ selected < Len(filtered_instances)

\* A two-character query leaves one of three instances visible.
C22_Witness ==
    /\ pc = "run" /\ search_mode /\ search_query = <<"g", "a">>
    /\ Len(instances) = 3 /\ Len(filtered_instances) = 1
    /\ selected = 0 /\ sort_mode = "Playtime"

\* C23: in Normal state the query is empty and the visible subset is the
\* full collection.
C23_NormalShowsAll ==
    ~search_mode =>
        /\ search_query = <<>>
        /\ filtered_instances = instances

\* Enter was pressed in Search state on a query that matched nothing.
C23_Witness ==
    /\ enterSearchEmpty /\ ~search_mode /\ pc = "restore"
    /\ Len(instances) = 3 /\ filtered_instances = instances
    /\ search_query = <<>>

\* C24: the full collection is ascending by name in Name mode and
\* non-increasing by last_played_ts (time_played_secs) in LastPlayed
\* (Playtime) mode, an absent value counting as 0.
C24_OrderedBySortMode ==
    /\ sort_mode = "Name" =>
          \A i, j \in 1..Len(instances) :
              i < j => CmpStr(instances[i].name, instances[j].name) <= 0
    /\ sort_mode = "LastPlayed" =>
          \A i, j \in 1..Len(instances) :
              i < j => unwrap_or(instances[i].last_played_ts, 0)
                          >= unwrap_or(instances[j].last_played_ts, 0)
    /\ sort_mode = "Playtime" =>
          \A i, j \in 1..Len(instances) :
              i < j => unwrap_or(instances[i].time_played_secs, 0)
                          >= unwrap_or(instances[j].time_played_secs, 0)

\* Playtime order of Beta (3661), Gamma (30) and Alpha (absent).
C24_Witness ==
    /\ pc = "run" /\ sort_mode = "Playtime" /\ Len(instances) = 3
    /\ instances[1].path = 2 /\ instances[2].path = 3 /\ instances[3].path = 1

====
